---- MODULE Spec2Model ----
(***************************************************************************)
(* Model of src/CalculatorAgent/main.py: the module-level start-up         *)
(* (load_dotenv, optional telemetry, the tools list), the coroutine        *)
(* run_server with its try/finally around the credential, and the three    *)
(* arithmetic tools the hosting framework invokes while it serves.         *)
(***************************************************************************)
EXTENDS Integers, Sequences, FiniteSets

VARIABLES
    pc,            \* position of the single thread of control
    environ,       \* os.environ.get("APPLICATIONINSIGHTS_CONNECTION_STRING")
    monitorCalls,  \* number of calls of configure_azure_monitor
    tools,         \* the module-level list `tools`
    credential,    \* "none" | "open" | "closed"
    closeCalls,    \* number of calls of credential.close()
    client,        \* whether the AzureAIAgentClient exists
    agent,         \* NoAgent, or the agent created by client.create_agent
    server,        \* "idle" | "serving" | "stopped": the hosted server of run_async
    exc,           \* the exception in flight inside the try block, or None
    outcome,       \* how run_server (and so main) ended
    events,        \* the external calls made so far, in order
    call           \* the last tool invocation made by the framework

vars == <<pc, environ, monitorCalls, tools, credential,
          closeCalls, client, agent, server, exc, outcome, events, call>>

\* Python's None
None == "None"

\* no agent yet (the name `agent` is unbound)
NoAgent == [name |-> None, tools |-> <<>>]

\* no tool has been invoked yet
NoCall == [tool |-> None, a |-> 0, b |-> 0, result |-> [kind |-> None, value |-> None]]

\* run_server has not ended yet
Running == [kind |-> "running", value |-> None]

\* ------------------------------------------------------------------ bounds

\* tool arguments range over -MaxInt..MaxInt, the operands of the documented
\* examples and two large magnitudes
MaxInt == 3

BigInts == {7, 10, -46340, 46340}

Ints == (-MaxInt..MaxInt) \cup BigInts

\* values the connection string can have: unset, set but empty, set
EnvValues == {None, "", "InstrumentationKey=k"}

\* ------------------------------------------------------------------ tools

\* Python truthiness of what os.getenv returns (None or a str)
\* faulty variant: `is not None` in place of truthiness
TruthyNotNone(v) == v # None

Truthy(v) == v # None /\ v # ""

\* faulty variant: the product kept in a 16-bit signed word
MultiplyWrap16(a, b) == ((a * b + 32768) % 65536) - 32768

multiply(a, b) == a * b

\* faulty variant: the wrong operator
AddAsSubtract(a, b) == a - b

add(a, b) == a + b

\* the Annotated[int, ...] parameters of a tool and its return annotation
Signature(t) ==
    [name    |-> t,
     params  |-> <<[name |-> "a", type |-> "int"], [name |-> "b", type |-> "int"]>>,
     returns |-> IF t = "divide" THEN "float" ELSE "int"]

\* faulty variant: a tool left out of the list
ToolListMissing == <<"add", "multiply">>

ToolList == <<"add", "multiply", "divide">>

\* ------------------------------------------------------------ float model
\* A Python float is an IEEE-754 double: sign, exponent and a significand of
\* MantDig bits.  The significand is kept as a big-endian sequence of limbs:
\* the leading bit, then the MantDig - 1 fraction bits in four limbs of
\* LimbBits bits each.  The value of [sign, exp, mant] is
\*   (-1)^sign * (mant read in radix Base) * 2^(exp - (MantDig - 1)).

MantDig == 53

LimbBits == (MantDig - 1) \div 4

Base == 2 ^ LimbBits

NumLimbs == (MantDig - 1) \div LimbBits

Abs(x) == IF x < 0 THEN -x ELSE x

Zeros(k) == [i \in 1..k |-> 0]

Front(s) == SubSeq(s, 1, Len(s) - 1)

Last(s) == s[Len(s)]

\* scale n and d (both > 0) by powers of two until d <= n < 2d;
\* e ends as floor(log2(n/d))
RECURSIVE Normalize(_, _, _)
Normalize(n, d, e) ==
    IF n < d THEN Normalize(2 * n, d, e - 1)
    ELSE IF n >= 2 * d THEN Normalize(n, 2 * d, e + 1)
    ELSE [n |-> n, d |-> d, e |-> e]

\* k further quotient limbs of rem/d by long division, appended to acc
RECURSIVE QuotLimbs(_, _, _, _)
QuotLimbs(rem, d, k, acc) ==
    IF k = 0 THEN [limbs |-> acc, rem |-> rem]
    ELSE QuotLimbs((rem * Base) % d, d, k - 1, Append(acc, (rem * Base) \div d))

\* limbs + 1; the top limb takes the carry
RECURSIVE Incr(_)
Incr(limbs) ==
    IF Len(limbs) = 1 THEN <<limbs[1] + 1>>
    ELSE IF Last(limbs) < Base - 1 THEN Append(Front(limbs), Last(limbs) + 1)
    ELSE Append(Incr(Front(limbs)), 0)

\* round-half-to-even of the MantDig-bit quotient q with remainder q.rem over d
RoundNearestEven(q, d, e) ==
    LET up == 2 * q.rem > d \/ (2 * q.rem = d /\ Last(q.limbs) % 2 = 1)
        m  == IF up THEN Incr(q.limbs) ELSE q.limbs
    IN  IF m[1] > 1
        THEN [exp |-> e + 1, mant |-> <<1>> \o Zeros(NumLimbs)]
        ELSE [exp |-> e, mant |-> m]

\* int / int: the correctly rounded double nearest to a/b (b # 0)
TrueDivide(a, b) ==
    LET negate == (a < 0) # (b < 0)
        s == IF negate THEN 1 ELSE 0
    IN  IF a = 0
        THEN [sign |-> IF b < 0 THEN 1 ELSE 0, exp |-> 0, mant |-> Zeros(NumLimbs + 1)]
        ELSE LET nd == Normalize(Abs(a), Abs(b), 0)
                 q  == QuotLimbs(nd.n - nd.d, nd.d, NumLimbs, <<1>>)
                 r  == RoundNearestEven(q, nd.d, nd.e)
             IN  [sign |-> s, exp |-> r.exp, mant |-> r.mant]

Return(v) == [kind |-> "return", value |-> v]

Raised(e) == [kind |-> "raise", value |-> e]

\* faulty variant: floor division, a // b
DivideFloor(a, b) ==
    IF b = 0 THEN Raised("ZeroDivisionError") ELSE Return(TrueDivide((IF b < 0 THEN -a ELSE a) \div Abs(b), 1))

\* faulty variant: the error caught locally and replaced by a value
DivideCatchZero(a, b) ==
    IF b = 0 THEN Return(TrueDivide(0, 1)) ELSE Return(TrueDivide(a, b))

divide(a, b) ==
    IF b = 0 THEN Raised("ZeroDivisionError") ELSE Return(TrueDivide(a, b))

\* what calling the registered tool t with (a, b) gives its caller
ToolResult(t, a, b) ==
    CASE t = "add"      -> Return(add(a, b))
      [] t = "multiply" -> Return(multiply(a, b))
      [] t = "divide"   -> divide(a, b)

\* ------------------------------------------------------------ the program

\* the tool descriptors create_agent derives from the functions in `tools`
Descriptors(ts) == [i \in DOMAIN ts |-> Signature(ts[i])]

\* faulty variant: no try/finally, the exception leaves run_server at once
TryRaiseNoFinally(e) ==
    /\ exc' = e
    /\ pc' = "exited"
    /\ outcome' = Raised(e)

\* an exception raised inside the try block: control goes to the finally block
TryRaise(e) ==
    /\ exc' = e
    /\ pc' = "finally"
    /\ UNCHANGED outcome

\* faulty variant: the finally block swallows the exception in flight
PropagateSwallow(e) == Return(None)

\* how the coroutine ends once the finally block has completed normally
Propagate(e) == IF e = None THEN Return(None) ELSE Raised(e)

Init ==
    /\ pc = "load_dotenv"
    /\ environ \in EnvValues
    /\ monitorCalls = 0
    /\ tools = <<>>
    /\ credential = "none"
    /\ closeCalls = 0
    /\ client = FALSE
    /\ agent = NoAgent
    /\ server = "idle"
    /\ exc = None
    /\ outcome = Running
    /\ events = <<>>
    /\ call = NoCall

\* load_dotenv(override=True): a key of the .env file replaces the process's value
\* (fileVal is the key's value in the .env file, None when the file has no such key)
LoadDotenv(fileVal) ==
    /\ pc = "load_dotenv"
    /\ environ' = IF fileVal # None THEN fileVal ELSE environ
    /\ pc' = "telemetry"
    /\ UNCHANGED <<monitorCalls, tools, credential, closeCalls,
                   client, agent, server, exc, outcome, events, call>>

\* if os.getenv(...): configure_azure_monitor(...)
ConfigureTelemetry ==
    /\ pc = "telemetry"
    /\ IF Truthy(environ)
       THEN /\ monitorCalls' = monitorCalls + 1
            /\ events' = Append(events, "configure_azure_monitor")
            /\ \/ pc' = "define_tools"
               \/ pc' = "crashed"
       ELSE /\ pc' = "define_tools"
            /\ UNCHANGED <<monitorCalls, events>>
    /\ UNCHANGED <<environ, tools, credential, closeCalls,
                   client, agent, server, exc, outcome, call>>

\* the def statements and tools = [add, multiply, divide]
DefineTools ==
    /\ pc = "define_tools"
    /\ tools' = ToolList
    /\ pc' = "main"
    /\ UNCHANGED <<environ, monitorCalls, credential, closeCalls,
                   client, agent, server, exc, outcome, events, call>>

\* main -> asyncio.run(run_server()) -> credential = DefaultAzureCredential()
CreateCredential ==
    /\ pc = "main"
    /\ events' = Append(events, "DefaultAzureCredential")
    /\ \/ /\ credential' = "open"
          /\ pc' = "client"
          /\ UNCHANGED outcome
       \/ /\ outcome' = Raised("CredentialError")
          /\ pc' = "exited"
          /\ UNCHANGED credential
    /\ UNCHANGED <<environ, monitorCalls, tools, closeCalls,
                   client, agent, server, exc, call>>

\* client = AzureAIAgentClient(...)
ConstructClient ==
    /\ pc = "client"
    /\ events' = Append(events, "AzureAIAgentClient")
    /\ \/ /\ client' = TRUE
          /\ pc' = "create_agent"
          /\ UNCHANGED <<exc, outcome>>
       \/ /\ TryRaise("ClientError")
          /\ UNCHANGED client
    /\ UNCHANGED <<environ, monitorCalls, tools, credential,
                   closeCalls, agent, server, call>>

\* faulty variant: create_agent called without tools=
CreateAgentNoTools ==
    /\ pc = "create_agent"
    /\ events' = Append(events, "create_agent")
    /\ \/ /\ agent' = [name |-> "CalculatorAgentAF", tools |-> <<>>]
          /\ pc' = "run_async"
          /\ UNCHANGED <<exc, outcome>>
       \/ /\ TryRaise("AgentError")
          /\ UNCHANGED agent
    /\ UNCHANGED <<environ, monitorCalls, tools, credential,
                   closeCalls, client, server, call>>

\* agent = client.create_agent(..., tools=tools)
CreateAgent ==
    /\ pc = "create_agent"
    /\ events' = Append(events, "create_agent")
    /\ \/ /\ agent' = [name |-> "CalculatorAgentAF", tools |-> Descriptors(tools)]
          /\ pc' = "run_async"
          /\ UNCHANGED <<exc, outcome>>
       \/ /\ TryRaise("AgentError")
          /\ UNCHANGED agent
    /\ UNCHANGED <<environ, monitorCalls, tools, credential,
                   closeCalls, client, server, call>>

\* faulty variant: run_async() not awaited, control falls through to the finally block
RunAsyncNotAwaited ==
    /\ pc = "run_async"
    /\ events' = Append(events, "run_async")
    /\ server' = "serving"
    /\ pc' = "finally"
    /\ UNCHANGED <<environ, monitorCalls, tools, credential, closeCalls, client,
                   agent, exc, outcome, call>>

\* await from_agent_framework(agent).run_async(): the server starts serving,
\* or fails before it serves
RunAsync ==
    /\ pc = "run_async"
    /\ events' = Append(events, "run_async")
    /\ \/ /\ server' = "serving"
          /\ pc' = "serving"
          /\ UNCHANGED <<exc, outcome>>
       \/ /\ TryRaise("ServerError")
          /\ UNCHANGED server
    /\ UNCHANGED <<environ, monitorCalls, tools, credential,
                   closeCalls, client, agent, call>>

\* while it serves, the framework calls a registered tool with two integers
Invoke(t, a, b) ==
    /\ pc = "serving"
    /\ server = "serving"
    /\ \E i \in DOMAIN agent.tools : agent.tools[i].name = t
    /\ call' = [tool |-> t, a |-> a, b |-> b, result |-> ToolResult(t, a, b)]
    /\ UNCHANGED <<pc, environ, monitorCalls, tools, credential,
                   closeCalls, client, agent, server, exc, outcome, events>>

\* run_async returns
ServeReturns ==
    /\ pc = "serving"
    /\ server' = "stopped"
    /\ pc' = "finally"
    /\ events' = Append(events, "run_async returned")
    /\ UNCHANGED <<environ, monitorCalls, tools, credential,
                   closeCalls, client, agent, exc, outcome, call>>

\* run_async raises, or the task is cancelled while it awaits run_async
ServeRaises(e) ==
    /\ pc = "serving"
    /\ server' = "stopped"
    /\ TryRaise(e)
    /\ events' = Append(events, "run_async raised")
    /\ UNCHANGED <<environ, monitorCalls, tools, credential,
                   closeCalls, client, agent, call>>

\* finally: await credential.close(); then the coroutine ends
Finally ==
    /\ pc = "finally"
    /\ closeCalls' = closeCalls + 1
    /\ events' = Append(events, "close")
    /\ \/ /\ credential' = "closed"
          /\ outcome' = Propagate(exc)
       \/ /\ outcome' = Raised("CloseError")
          /\ UNCHANGED credential
    /\ pc' = "exited"
    /\ UNCHANGED <<environ, monitorCalls, tools, client, agent,
                   server, exc, call>>

Next ==
    \/ \E fileVal \in EnvValues : LoadDotenv(fileVal)
    \/ ConfigureTelemetry
    \/ DefineTools
    \/ CreateCredential
    \/ ConstructClient
    \/ CreateAgent
    \/ RunAsync
    \/ \E t \in {"add", "multiply", "divide"} : \E a, b \in Ints : Invoke(t, a, b)
    \/ ServeReturns
    \/ \E e \in {"ServerError", "CancelledError"} : ServeRaises(e)
    \/ Finally

Spec == Init /\ [][Next]_vars

\* ---------------------------------------------------- arithmetic on limbs
\* Exact arithmetic on big-endian limb sequences in radix Base, used to state
\* what a float is worth without leaving TLC's integer range.

\* limbs * m + c
RECURSIVE MulAddAcc(_, _, _, _)
MulAddAcc(limbs, m, carry, acc) ==
    IF Len(limbs) = 0
    THEN IF carry = 0 THEN acc
         ELSE MulAddAcc(<<>>, m, carry \div Base, <<carry % Base>> \o acc)
    ELSE MulAddAcc(Front(limbs), m, (Last(limbs) * m + carry) \div Base,
                   <<(Last(limbs) * m + carry) % Base>> \o acc)

MulAdd(limbs, m, c) == MulAddAcc(limbs, m, c, <<>>)

\* without leading zero limbs
RECURSIVE Strip(_)
Strip(limbs) ==
    IF Len(limbs) > 0 /\ limbs[1] = 0 THEN Strip(Tail(limbs)) ELSE limbs

RECURSIVE LexLeq(_, _)
LexLeq(x, y) ==
    IF Len(x) = 0 THEN TRUE
    ELSE IF x[1] # y[1] THEN x[1] < y[1]
    ELSE LexLeq(Tail(x), Tail(y))

\* x <= y as numbers
Leq(x, y) ==
    LET sx == Strip(x)
        sy == Strip(y)
    IN  Len(sx) < Len(sy) \/ (Len(sx) = Len(sy) /\ LexLeq(sx, sy))

\* x = y as numbers
Same(x, y) == Leq(x, y) /\ Leq(y, x)

\* the limbs of the natural number n
NatLimbs(n) == MulAdd(<<>>, 1, n)

\* |a| * 2^(MantDig - 1 - r.exp): |a| in units of r's last place
Scaled(r, a) ==
    LET shift == MantDig - 1 - r.exp
    IN  NatLimbs(Abs(a) * 2 ^ (shift % LimbBits)) \o Zeros(shift \div LimbBits)

SignOf(a, b) == IF (a < 0) # (b < 0) THEN 1 ELSE 0

\* r * b = a, exactly
ExactProduct(r, a, b) ==
    /\ Same(MulAdd(r.mant, Abs(b), 0), Scaled(r, a))
    /\ a # 0 => r.sign = SignOf(a, b)

\* |r * b - a| <= |b| * ulp(r) / 2 and r has the sign of a/b
WithinHalfUlp(r, a, b) ==
    /\ Leq(MulAdd(r.mant, 2 * Abs(b), 0), MulAdd(Scaled(r, a), 2, Abs(b)))
    /\ Leq(MulAdd(Scaled(r, a), 2, 0), MulAdd(r.mant, 2 * Abs(b), Abs(b)))
    /\ r.sign = SignOf(a, b)

\* a well-formed double: MantDig bits, normalised unless zero
IsDouble(r) ==
    /\ r.sign \in {0, 1}
    /\ Len(r.mant) = NumLimbs + 1
    /\ r.mant[1] \in {0, 1}
    /\ \A i \in 2..(NumLimbs + 1) : r.mant[i] \in 0..(Base - 1)
    /\ r.mant[1] = 1 \/ \A i \in 1..(NumLimbs + 1) : r.mant[i] = 0

RECURSIVE GCD(_, _)
GCD(m, n) == IF n = 0 THEN m ELSE GCD(n, m % n)

RECURSIVE IsPow2(_)
IsPow2(n) == n = 1 \/ (n > 1 /\ n % 2 = 0 /\ IsPow2(n \div 2))

\* a/b in lowest terms has a power of two as denominator
\* (its numerator is far below 2^MantDig for the arguments of the model)
Dyadic(a, b) == IsPow2(Abs(b) \div GCD(Abs(a), Abs(b)))

\* the doubles 5.0 = 1.01b * 2^2 and 3.5 = 1.11b * 2^1
Float5 == [sign |-> 0, exp |-> 2, mant |-> <<1, Base \div 4, 0, 0, 0>>]

Float3_5 == [sign |-> 0, exp |-> 1, mant |-> <<1, Base \div 2 + Base \div 4, 0, 0, 0>>]

\* ------------------------------------------------------------------ claims

Count(e) == Cardinality({i \in DOMAIN events : events[i] = e})

Called(t) == call.tool = t

Ended == pc = "exited"

\* C1: whenever run_server has ended and the credential had been created,
\* credential.close() has been called exactly once (never zero times, never
\* twice), whether serving returned or raised or set-up failed.
C1_CloseExactlyOnce ==
    /\ closeCalls <= 1
    /\ (Ended /\ credential # "none") => closeCalls = 1

C1_Witness ==
    /\ Ended
    /\ outcome = Raised("ClientError")
    /\ closeCalls = 1

\* C2: the server never serves unless create_agent has registered the three
\* tools before run_async was started.
C2_RegisteredBeforeServing ==
    server = "serving" =>
        /\ agent # NoAgent
        /\ {agent.tools[i].name : i \in DOMAIN agent.tools} = {"add", "multiply", "divide"}
        /\ \E i, j \in DOMAIN events :
              i < j /\ events[i] = "create_agent" /\ events[j] = "run_async"

C2_Witness == server = "serving" /\ Called("divide")

\* C3: the tools passed at registration are exactly add, multiply and divide,
\* three of them without duplicates, each with two int parameters a and b; and
\* no step changes the registered tools or the list `tools` once they are set.
C3_ToolSet ==
    agent # NoAgent =>
        /\ Len(agent.tools) = 3
        /\ {agent.tools[i].name : i \in 1..Len(agent.tools)} = {"add", "multiply", "divide"}
        /\ \A i \in 1..Len(agent.tools) :
              agent.tools[i].params =
                  <<[name |-> "a", type |-> "int"], [name |-> "b", type |-> "int"]>>

C3_ExactlyThreeToolsFixed ==
    /\ []C3_ToolSet
    /\ [][/\ agent # NoAgent => agent' = agent
          /\ tools # <<>> => tools' = tools]_vars

C3_Witness == agent # NoAgent /\ server = "stopped" /\ Called("multiply")

\* C4: a divide call with b = 0 ends in ZeroDivisionError handed to the caller,
\* for every a; it never returns a value.
C4_DivideByZeroRaises ==
    (Called("divide") /\ call.b = 0) =>
        /\ call.result.kind = "raise"
        /\ call.result.value = "ZeroDivisionError"

C4_Witness == Called("divide") /\ call.b = 0 /\ call.a = 7 /\ call.result.kind = "raise"

\* C5: an add call returns a + b; add is commutative and associative.
C5_AddIsSum ==
    Called("add") =>
        /\ call.result.kind = "return"
        /\ call.result.value = call.a + call.b
        /\ call.result.value = add(call.b, call.a)
        /\ \A c \in Ints : add(call.result.value, c) = add(call.a, add(call.b, c))

C5_Witness == Called("add") /\ call.a = 46340 /\ call.b = 46340 /\ call.result.value = 92680

\* C6: a multiply call returns a * b, with no wrap-around: dividing the
\* result by b gives a back without remainder, also beyond 16 and 30 bits.
C6_MultiplyIsProduct ==
    Called("multiply") =>
        /\ call.result.kind = "return"
        /\ call.result.value = call.a * call.b
        /\ call.b # 0 => /\ Abs(call.result.value) % Abs(call.b) = 0
                         /\ Abs(call.result.value) \div Abs(call.b) = Abs(call.a)

C6_Witness ==
    Called("multiply") /\ call.a = 46340 /\ call.b = -46340 /\ call.result.value = -2147395600

\* C7 as stated: a divide call with b # 0 returns r with r * b = a.
C7_ExactQuotient ==
    (Called("divide") /\ call.b # 0) =>
        /\ call.result.kind = "return"
        /\ ExactProduct(call.result.value, call.a, call.b)

\* C7 amended: a divide call with b # 0 returns the double nearest to a/b
\* (true division): |r * b - a| <= |b| * ulp(r) / 2, r * b = a when a/b is a
\* dyadic rational, divide(10, 2) = 5.0 and divide(7, 2) = 3.5.
C7_NearestDouble ==
    (Called("divide") /\ call.b # 0) =>
        /\ call.result.kind = "return"
        /\ IsDouble(call.result.value)
        /\ WithinHalfUlp(call.result.value, call.a, call.b)
        /\ Dyadic(call.a, call.b) => ExactProduct(call.result.value, call.a, call.b)
        /\ (call.a = 10 /\ call.b = 2) => call.result.value = Float5
        /\ (call.a = 7 /\ call.b = 2) => call.result.value = Float3_5

C7_Witness ==
    /\ Called("divide") /\ call.a = 7 /\ call.b = 2
    /\ call.result.kind = "return" /\ call.result.value = Float3_5

\* C8 as stated: after start-up configure_azure_monitor has been called
\* (once) exactly when the variable is set.
C8_IffSet ==
    /\ monitorCalls <= 1
    /\ pc \notin {"load_dotenv", "telemetry"} => (monitorCalls = 1 <=> environ # None)

\* C8 amended: after start-up configure_azure_monitor has been called (once)
\* exactly when the variable is set to a non-empty string; never twice, and
\* never before the check.
C8_IffSetNonEmpty ==
    /\ monitorCalls <= 1
    /\ pc \in {"load_dotenv", "telemetry"} => monitorCalls = 0
    /\ pc \notin {"load_dotenv", "telemetry"} =>
           (monitorCalls = 1 <=> (environ # None /\ environ # ""))

C8_Witness == pc = "main" /\ environ = "InstrumentationKey=k" /\ monitorCalls = 1

\* C9: the external calls happen in the one order credential, client, agent,
\* run_async, end of run_async, close, each at most once; the credential is
\* closed only after serving has ended or set-up has failed, never while the
\* server serves; and the phase never moves back.
EventRank(e) ==
    CASE e = "configure_azure_monitor" -> 0
      [] e = "DefaultAzureCredential"  -> 1
      [] e = "AzureAIAgentClient"      -> 2
      [] e = "create_agent"            -> 3
      [] e = "run_async"               -> 4
      [] e = "run_async returned"      -> 5
      [] e = "run_async raised"        -> 5
      [] e = "close"                   -> 6

PhaseRank ==
    IF server = "serving" THEN 1
    ELSE IF server = "stopped" \/ pc \in {"finally", "exited", "crashed"} THEN 2
    ELSE 0

C9_Order ==
    /\ \A i, j \in DOMAIN events : i < j => EventRank(events[i]) < EventRank(events[j])
    /\ server = "serving" => (credential = "open" /\ closeCalls = 0 /\ client /\ agent # NoAgent)
    /\ client => credential # "none"
    /\ agent # NoAgent => client
    /\ closeCalls > 0 => (server # "serving" /\ (exc # None \/ Count("run_async returned") = 1))

C9_LinearLifecycle ==
    /\ []C9_Order
    /\ [][PhaseRank' >= PhaseRank]_vars

C9_Witness ==
    /\ Ended
    /\ events = <<"DefaultAzureCredential", "AzureAIAgentClient", "create_agent",
                  "run_async", "run_async returned", "close">>

\* C10: when client construction, agent creation or the server run has raised,
\* run_server ends by raising, with that same error if the close succeeded;
\* and no step is attempted twice.
C10_ErrorPropagates ==
    /\ (Ended /\ exc # None) => outcome.kind = "raise"
    /\ (Ended /\ exc # None /\ credential = "closed") => outcome = Raised(exc)
    /\ \A e \in {"AzureAIAgentClient", "create_agent", "run_async"} : Count(e) <= 1

C10_Witness ==
    Ended /\ exc = "AgentError" /\ credential = "closed" /\ outcome = Raised("AgentError")

====
